---- MODULE Spec2Model ----
(***************************************************************************)
(* Model of the browser client of the pavilion map: auth.js (phone login   *)
(* against the tenants table, session in localStorage), data.js (pavilion  *)
(* CRUD over the REST backend, localStorage read cache) and superadmin.js  *)
(* (owner console).  The backend tables are part of the state; every       *)
(* handler is one action, except the login handler, which is split at its  *)
(* single await on the network.                                            *)
(***************************************************************************)
EXTENDS Integers, Sequences, FiniteSets, TLC

VARIABLES
  tenants,        \* backend table tenants: id -> [approved, is_owner]
  pavilions,      \* backend table pavilions: id -> row, NotCreated or Deleted
  session,        \* localStorage['aprashka_auth_session'] (parsed) or NULL
  cache,          \* localStorage['aprashka_cache_' + key]: entry or NULL
  currentTenant,  \* AuthState.currentTenant
  lastActivity,   \* AuthState.lastActivity: Some(ms) or NULL
  pendingLogin,   \* Some(phone) of the checkPhone request in flight, or NULL
  DataState,      \* DataState of data.js: [pavilions, tenants]
  state,          \* state of superadmin.js
  shown,          \* which superadmin blocks are displayed
  page,           \* the document that is loaded
  now,            \* Date.now(), in milliseconds
  ticks,          \* number of clock steps taken (bounds the clock)
  writes,         \* number of write operations called (bounds the run)
  sw,             \* the service worker, its caches and the network it sees
  floorPlanState, \* floorPlanState of the floor-plan module
  premium,        \* backend column tenants.is_premium: id -> BOOLEAN
  pavPage,        \* the pavilion page: state of pavilion.js, URL and sections
  last            \* the operation that ran last and what it did

vars == <<tenants, pavilions, session, cache, currentTenant, lastActivity,
          pendingLogin, DataState, state, shown, page, now, ticks, writes, sw,
          floorPlanState, premium, pavPage, last>>

----------------------------------------------------------------------------
(* Bounds and program constants *)

MaxTicks == 3

MaxWrites == 2

SESSION_TIMEOUT == 24

CACHE_TIMEOUT == 3600000

HourMs == 60 * 60 * 1000

NULL == [null |-> TRUE]

\* a value that is there, where NULL stands for null or undefined
Some(v) == [some |-> v]

Tenants == {"t1", "t2"}

PavIds == {"p1", "p2", "p3"}

Pages == {"index", "admin", "superadmin"}

CacheKeys == {"pavilions", "tenants"}

----------------------------------------------------------------------------
(* Phone numbers are sequences of one-character strings *)

Digits == {"0", "1", "2", "3", "4", "5", "6", "7", "8", "9"}

Zeros(n) == [i \in 1..n |-> "0"]

Phone1 == <<"+", "7">> \o Zeros(9) \o <<"1">>

Phone2 == <<"+", "7">> \o Zeros(9) \o <<"2">>

Phone3 == <<"+", "7">> \o Zeros(9) \o <<"3">>

\* tenants.phone is UNIQUE: one row per phone
PhoneOf(t) == IF t = "t1" THEN Phone1 ELSE Phone2

\* what a user may type into the phone field
RawInputs ==
  { <<"8">> \o Zeros(9) \o <<"1">>,                        \* 8XXXXXXXXXX
    <<"+", "7", " ", "(">> \o Zeros(3) \o <<")", " ">>
        \o Zeros(3) \o <<"-">> \o Zeros(3) \o <<"2">>,     \* +7 (000) 000-0002
    Phone3,                                                \* not in the table
    <<"9">> \o Zeros(9) \o <<"1">>,                        \* 11 digits, no 7/8
    <<"1", "2", "3">>,                                     \* too short
    <<>> }

RECURSIVE TrimLeft(_)
TrimLeft(s) == IF Len(s) > 0 /\ Head(s) = " " THEN TrimLeft(Tail(s)) ELSE s

RECURSIVE TrimRight(_)
TrimRight(s) ==
  IF Len(s) > 0 /\ s[Len(s)] = " " THEN TrimRight(SubSeq(s, 1, Len(s) - 1)) ELSE s

\* /^\+7\d{10}$/.test(phone.trim())
validatePhoneNumber(phone) ==
  LET trimmed == TrimRight(TrimLeft(phone))
  IN  /\ Len(trimmed) = 12
      /\ trimmed[1] = "+"
      /\ trimmed[2] = "7"
      /\ \A i \in 3..12 : trimmed[i] \in Digits

IsDigit(c) == c \in Digits

Threw == [threw |-> TRUE]

\* Some(the formatted number), or Threw where the code throws
formatPhoneNumber(phone) ==
  LET digitsOnly == SelectSeq(phone, IsDigit)
      normalized == IF Len(digitsOnly) > 0 /\ Head(digitsOnly) = "8"
                    THEN <<"7">> \o Tail(digitsOnly)
                    ELSE digitsOnly
  IN  IF Len(normalized) # 11 THEN Threw ELSE Some(<<"+">> \o normalized)

----------------------------------------------------------------------------
(* The backend *)

TenantRow(t) ==
  [id |-> t, phone |-> PhoneOf(t),
   approved |-> tenants[t].approved, is_owner |-> tenants[t].is_owner]

\* GET /rest/v1/tenants?phone=eq.<phone>&select=*
TenantsByPhone(phone) ==
  LET ids == {t \in Tenants : PhoneOf(t) = phone}
  IN  IF ids = {} THEN <<>> ELSE <<TenantRow(CHOOSE t \in ids : TRUE)>>

----------------------------------------------------------------------------
(* auth.js *)

checkPhoneNoApproval(phone, httpOk) ==
  IF ~validatePhoneNumber(phone) THEN Threw
  ELSE IF ~httpOk THEN Threw
  ELSE LET data == TenantsByPhone(phone)
       IN  IF Len(data) = 0 THEN NULL ELSE data[1]

checkPhoneNoHttpCheck(phone, httpOk) ==
  IF ~validatePhoneNumber(phone) THEN Threw
  ELSE LET data == IF httpOk THEN TenantsByPhone(phone) ELSE <<>>
       IN  IF Len(data) = 0 THEN NULL
           ELSE IF ~data[1].approved THEN NULL
           ELSE data[1]

\* the tenant row, NULL, or Threw
checkPhone(phone, httpOk) ==
  IF ~validatePhoneNumber(phone) THEN Threw
  ELSE IF ~httpOk THEN Threw
  ELSE LET data == TenantsByPhone(phone)
       IN  IF Len(data) = 0 THEN NULL
           ELSE IF ~data[1].approved THEN NULL
           ELSE data[1]

\* the object createSession stores (name, email and created_at are carried
\* along and never read)
SessionOf(tenant) ==
  [id |-> tenant.id, phone |-> tenant.phone, approved |-> tenant.approved,
   loginTime |-> now]

isAuthenticated == currentTenant # NULL

getCurrentTenant == currentTenant

----------------------------------------------------------------------------
(* data.js: the localStorage read cache *)

\* an entry that JSON.parse rejects
Unparsable == [unparsable |-> TRUE]

getCacheDataExpiresAtTimeout(c, key) ==
  LET cached == c[key]
  IN  IF cached = NULL THEN [ret |-> NULL, cache |-> c]
      ELSE IF cached = Unparsable THEN [ret |-> NULL, cache |-> c]
      ELSE IF cached.timestamp # 0 /\ now - cached.timestamp >= CACHE_TIMEOUT
           THEN [ret |-> NULL, cache |-> [c EXCEPT ![key] = NULL]]
      ELSE [ret |-> Some(cached.value), cache |-> c]

\* Some(the value returned) or NULL, and localStorage afterwards
getCacheData(c, key) ==
  LET cached == c[key]
  IN  IF cached = NULL THEN [ret |-> NULL, cache |-> c]
      ELSE IF cached = Unparsable THEN [ret |-> NULL, cache |-> c]
      ELSE IF cached.timestamp # 0 /\ now - cached.timestamp > CACHE_TIMEOUT
           THEN [ret |-> NULL, cache |-> [c EXCEPT ![key] = NULL]]
      ELSE [ret |-> Some(cached.value), cache |-> c]

\* localStorage.setItem throws when the quota is exceeded; the catch logs it
setCacheData(c, key, value, quotaOk) ==
  IF quotaOk THEN [c EXCEPT ![key] = [value |-> value, timestamp |-> now]]
  ELSE c

clearCacheData(c, key) == [c EXCEPT ![key] = NULL]

\* getCacheData(key) || []
OrEmpty(v) == IF v = NULL THEN <<>> ELSE v.some

\* initData -> loadCacheFromStorage: DataState and localStorage afterwards
loadCacheFromStorage(c) ==
  LET g1 == getCacheData(c, "pavilions")
      g2 == getCacheData(g1.cache, "tenants")
  IN  [ds    |-> [pavilions |-> OrEmpty(g1.ret), tenants |-> OrEmpty(g2.ret)],
       cache |-> g2.cache]

----------------------------------------------------------------------------
(* data.js: pavilions and tenants *)

NotCreated == [gone |-> "never"]

Deleted == [gone |-> "deleted"]

IsRow(r) == "id" \in DOMAIN r

PavOrder == <<"p1", "p2", "p3">>

TenantOrder == <<"t1", "t2">>

\* GET /rest/v1/pavilions?select=*
AllPavilionRows ==
  SelectSeq([i \in 1..Len(PavOrder) |-> pavilions[PavOrder[i]]], IsRow)

\* GET /rest/v1/tenants?select=id,name,phone,email,approved,created_at
AllTenantRows ==
  [i \in 1..Len(TenantOrder) |->
     [id |-> TenantOrder[i], phone |-> PhoneOf(TenantOrder[i]),
      approved |-> tenants[TenantOrder[i]].approved]]

\* Array.prototype.find(p => p.id === id), NULL for undefined
FindById(seq, id) ==
  LET hits == {i \in 1..Len(seq) : seq[i].id = id}
  IN  IF hits = {} THEN NULL
      ELSE seq[CHOOSE i \in hits : \A j \in hits : i <= j]

\* Array.prototype.findIndex, 0 for -1
FindIndex(seq, id) ==
  LET hits == {i \in 1..Len(seq) : seq[i].id = id}
  IN  IF hits = {} THEN 0 ELSE CHOOSE i \in hits : \A j \in hits : i <= j

HasOtherId(id, r) == r.id # id

getAllPavilionsIgnoresCache(c, ds, httpOk, quotaOk) ==
  LET g == getCacheData(c, "pavilions")
  IN  IF httpOk
      THEN [ret |-> AllPavilionRows,
            ds |-> [ds EXCEPT !.pavilions = AllPavilionRows],
            cache |-> setCacheData(g.cache, "pavilions", AllPavilionRows, quotaOk),
            fetched |-> TRUE]
      ELSE [ret |-> ds.pavilions, ds |-> ds, cache |-> g.cache, fetched |-> TRUE]

getAllPavilions(c, ds, httpOk, quotaOk) ==
  LET g == getCacheData(c, "pavilions")
  IN  IF g.ret # NULL
      THEN [ret |-> g.ret.some, ds |-> [ds EXCEPT !.pavilions = g.ret.some],
            cache |-> g.cache, fetched |-> FALSE]
      ELSE IF httpOk
      THEN [ret |-> AllPavilionRows,
            ds |-> [ds EXCEPT !.pavilions = AllPavilionRows],
            cache |-> setCacheData(g.cache, "pavilions", AllPavilionRows, quotaOk),
            fetched |-> TRUE]
      ELSE [ret |-> ds.pavilions, ds |-> ds, cache |-> g.cache, fetched |-> TRUE]

getAllTenants(c, ds, httpOk, quotaOk) ==
  LET g == getCacheData(c, "tenants")
  IN  IF g.ret # NULL
      THEN [ret |-> g.ret.some, ds |-> [ds EXCEPT !.tenants = g.ret.some],
            cache |-> g.cache, fetched |-> FALSE]
      ELSE IF httpOk
      THEN [ret |-> AllTenantRows,
            ds |-> [ds EXCEPT !.tenants = AllTenantRows],
            cache |-> setCacheData(g.cache, "tenants", AllTenantRows, quotaOk),
            fetched |-> TRUE]
      ELSE [ret |-> ds.tenants, ds |-> ds, cache |-> g.cache, fetched |-> TRUE]

\* the local copy first, then GET ?id=eq.<id>; NULL when neither has it
getPavilionById(id, httpOk) ==
  LET local == FindById(DataState.pavilions, id)
  IN  IF local # NULL THEN local
      ELSE IF httpOk /\ IsRow(pavilions[id]) THEN pavilions[id]
      ELSE NULL

NoReq == [method |-> "none"]

\* what a data.js write did: whether it threw, the request it sent, its
\* return value, and the backend table, DataState and localStorage afterwards
Outcome(threw, req, ret, pavs, ds, c) ==
  [threw |-> threw, req |-> req, ret |-> ret, pavilions |-> pavs,
   ds |-> ds, cache |-> c]

Rejected == Outcome(TRUE, NoReq, NULL, pavilions, DataState, cache)

\* the backend's answers to a write: the rows it wrote, an answer without
\* rows after writing, or an HTTP error
Responses == {"rows", "empty", "error"}

\* ids the backend has not handed out yet
FreshIds == {p \in PavIds : pavilions[p] = NotCreated}

createPavilionKeepTenantId(data, id, resp) ==
  IF currentTenant = NULL THEN Rejected
  ELSE LET pavilionData == [tenant_id |-> data.tenant_id, is_premium |-> data.is_premium]
           req == [method |-> "POST", id |-> id, body |-> pavilionData]
           row == [id |-> id, tenant_id |-> pavilionData.tenant_id,
                   is_premium |-> pavilionData.is_premium, discounts |-> <<>>]
       IN  IF resp = "error" THEN Outcome(TRUE, req, NULL, pavilions, DataState, cache)
           ELSE IF resp = "empty"
           THEN Outcome(TRUE, req, NULL, [pavilions EXCEPT ![id] = row], DataState, cache)
           ELSE Outcome(FALSE, req, row, [pavilions EXCEPT ![id] = row],
                        [DataState EXCEPT !.pavilions = Append(@, row)],
                        clearCacheData(cache, "pavilions"))

\* data carries the caller's fields, tenant_id among them; id is the key the
\* backend gives the new row
createPavilion(data, id, resp) ==
  IF currentTenant = NULL THEN Rejected
  ELSE LET pavilionData == [tenant_id |-> currentTenant.id, is_premium |-> data.is_premium]
           req == [method |-> "POST", id |-> id, body |-> pavilionData]
           row == [id |-> id, tenant_id |-> pavilionData.tenant_id,
                   is_premium |-> pavilionData.is_premium, discounts |-> <<>>]
       IN  IF resp = "error" THEN Outcome(TRUE, req, NULL, pavilions, DataState, cache)
           ELSE IF resp = "empty"
           THEN Outcome(TRUE, req, NULL, [pavilions EXCEPT ![id] = row], DataState, cache)
           ELSE Outcome(FALSE, req, row, [pavilions EXCEPT ![id] = row],
                        [DataState EXCEPT !.pavilions = Append(@, row)],
                        clearCacheData(cache, "pavilions"))

\* PATCH ?id=eq.<id>: the rows the backend changed
Patched(id, data) ==
  IF IsRow(pavilions[id])
  THEN <<[f \in DOMAIN pavilions[id] |->
            IF f \in DOMAIN data THEN data[f] ELSE pavilions[id][f]]>>
  ELSE <<>>

updatePavilionNoOwnerCheck(id, data, getOk, resp) ==
  LET pavilion == getPavilionById(id, getOk)
      req == [method |-> "PATCH", id |-> id, body |-> data]
      rows == Patched(id, data)
      after == IF Len(rows) > 0 THEN [pavilions EXCEPT ![id] = rows[1]] ELSE pavilions
      index == FindIndex(DataState.pavilions, id)
  IN  IF currentTenant = NULL THEN Rejected
      ELSE IF pavilion = NULL THEN Rejected
      ELSE IF resp = "error" THEN Outcome(TRUE, req, NULL, pavilions, DataState, cache)
      ELSE IF resp = "empty" \/ Len(rows) = 0
      THEN Outcome(TRUE, req, NULL, after, DataState, cache)
      ELSE Outcome(FALSE, req, rows[1], after,
                   IF index # 0 THEN [DataState EXCEPT !.pavilions[index] = rows[1]]
                   ELSE DataState,
                   clearCacheData(cache, "pavilions"))

updatePavilion(id, data, getOk, resp) ==
  LET pavilion == getPavilionById(id, getOk)
      req == [method |-> "PATCH", id |-> id, body |-> data]
      rows == Patched(id, data)
      after == IF Len(rows) > 0 THEN [pavilions EXCEPT ![id] = rows[1]] ELSE pavilions
      index == FindIndex(DataState.pavilions, id)
  IN  IF currentTenant = NULL THEN Rejected
      ELSE IF pavilion = NULL THEN Rejected
      ELSE IF pavilion.tenant_id # currentTenant.id THEN Rejected
      ELSE IF resp = "error" THEN Outcome(TRUE, req, NULL, pavilions, DataState, cache)
      ELSE IF resp = "empty" \/ Len(rows) = 0
      THEN Outcome(TRUE, req, NULL, after, DataState, cache)
      ELSE Outcome(FALSE, req, rows[1], after,
                   IF index # 0 THEN [DataState EXCEPT !.pavilions[index] = rows[1]]
                   ELSE DataState,
                   clearCacheData(cache, "pavilions"))

\* supabaseRequest returns null for a DELETE whatever the body, so only an
\* HTTP error makes it throw
deletePavilion(id, getOk, resp) ==
  LET pavilion == getPavilionById(id, getOk)
      req == [method |-> "DELETE", id |-> id]
      after == IF IsRow(pavilions[id]) THEN [pavilions EXCEPT ![id] = Deleted]
               ELSE pavilions
  IN  IF currentTenant = NULL THEN Rejected
      ELSE IF pavilion = NULL THEN Rejected
      ELSE IF pavilion.tenant_id # currentTenant.id THEN Rejected
      ELSE IF resp = "error" THEN Outcome(TRUE, req, NULL, pavilions, DataState, cache)
      ELSE Outcome(FALSE, req, TRUE, after,
                   [DataState EXCEPT !.pavilions =
                      SelectSeq(@, LAMBDA p : HasOtherId(id, p))],
                   clearCacheData(cache, "pavilions"))

\* { ...d, ...data }: the fields of data over those of d
Spread(d, data) ==
  [f \in DOMAIN d \cup DOMAIN data |-> IF f \in DOMAIN data THEN data[f] ELSE d[f]]

\* the array is the pavilion's own: push changes the row held in
\* DataState.pavilions before the update is sent
addDiscount(pavilionId, discountData, generated, time, getOk, resp) ==
  LET pavilion == getPavilionById(pavilionId, getOk)
      newDiscount == Spread(Spread([id |-> generated], discountData),
                            [created_at |-> time])
      discounts == Append(pavilion.discounts, newDiscount)
      index == FindIndex(DataState.pavilions, pavilionId)
      pushed == IF index # 0
                THEN [DataState EXCEPT !.pavilions[index].discounts = discounts]
                ELSE DataState
      r == updatePavilion(pavilionId, [discounts |-> discounts], getOk, resp)
  IN  IF currentTenant = NULL THEN Rejected
      ELSE IF pavilion = NULL THEN Rejected
      ELSE IF pavilion.tenant_id # currentTenant.id THEN Rejected
      ELSE IF r.threw THEN [r EXCEPT !.ds = pushed]
      ELSE r

HasOtherDiscountId(discountId, d) == d.id # discountId

removeDiscount(pavilionId, discountId, getOk, resp) ==
  LET pavilion == getPavilionById(pavilionId, getOk)
      discounts == SelectSeq(pavilion.discounts,
                             LAMBDA d : HasOtherDiscountId(discountId, d))
  IN  IF currentTenant = NULL THEN Rejected
      ELSE IF pavilion = NULL THEN Rejected
      ELSE IF pavilion.tenant_id # currentTenant.id THEN Rejected
      ELSE updatePavilion(pavilionId, [discounts |-> discounts], getOk, resp)

updateDiscount(pavilionId, discountId, discountData, time, getOk, resp) ==
  LET pavilion == getPavilionById(pavilionId, getOk)
      discounts == [i \in 1..Len(pavilion.discounts) |->
                      IF pavilion.discounts[i].id = discountId
                      THEN Spread(Spread(pavilion.discounts[i], discountData),
                                  [updated_at |-> time])
                      ELSE pavilion.discounts[i]]
  IN  IF currentTenant = NULL THEN Rejected
      ELSE IF pavilion = NULL THEN Rejected
      ELSE IF pavilion.tenant_id # currentTenant.id THEN Rejected
      ELSE updatePavilion(pavilionId, [discounts |-> discounts], getOk, resp)

\* the functions window.Data exports
DataExports ==
  {"init", "getAllPavilions", "getPavilionById", "createPavilion",
   "updatePavilion", "savePavilion", "deletePavilion", "getAllTenants",
   "getTenantByPhone", "getTenantById", "getCurrentUser", "addDiscount",
   "removeDiscount", "updateDiscount", "searchPavilions", "filterByCategory",
   "getPavilionsByTenant", "uploadImage", "uploadFile", "getCacheData",
   "setCacheData", "clearCacheData", "clearAllCache", "supabaseRequest",
   "generateId"}

----------------------------------------------------------------------------
(* superadmin.js *)

FreshState == [currentUser |-> NULL, allPavilions |-> <<>>, allTenants |-> <<>>]

NothingShown == [accessDenied |-> FALSE, adminContent |-> FALSE]

checkOwnerAccess(tenant) ==
  /\ tenant # NULL
  /\ "is_owner" \in DOMAIN tenant
  /\ tenant.is_owner

\* init(): for a refused visitor the access-denied block and nothing else;
\* otherwise the console with the pavilions and tenants loaded
init(tenant, c, ds, httpOk, quotaOk) ==
  IF ~checkOwnerAccess(tenant)
  THEN [state |-> FreshState,
        shown |-> [NothingShown EXCEPT !.accessDenied = TRUE],
        ds |-> ds, cache |-> c, hasAccess |-> FALSE]
  ELSE LET pav == getAllPavilions(c, ds, httpOk, quotaOk)
           ten == getAllTenants(pav.cache, pav.ds, httpOk, quotaOk)
       IN  [state |-> [currentUser |-> tenant, allPavilions |-> pav.ret,
                       allTenants |-> ten.ret],
            shown |-> [NothingShown EXCEPT !.adminContent = TRUE],
            ds |-> ten.ds, cache |-> ten.cache, hasAccess |-> TRUE]

\* window.Data.updateTenant?.(id, patch): a call only if data.js exports it
updateTenantCall(id, patch) ==
  IF "updateTenant" \in DataExports
  THEN [tenants EXCEPT ![id].approved = patch.approved]
  ELSE tenants

\* tenant.approved = value on the entry of state.allTenants, if there is one
MarkTenant(id, value) ==
  [i \in 1..Len(state.allTenants) |->
     IF i = FindIndex(state.allTenants, id)
     THEN [state.allTenants[i] EXCEPT !.approved = value]
     ELSE state.allTenants[i]]

----------------------------------------------------------------------------
(* sw.js: names, URLs and the Cache Storage *)

\* 'apra-shka-' as characters
CachePrefix == <<"a", "p", "r", "a", "-", "s", "h", "k", "a", "-">>

CACHE_VERSION == <<"v", "1">>

CACHE_NAME == CachePrefix \o CACHE_VERSION

\* the cache of the version before
OldCacheName == CachePrefix \o <<"v", "0">>

\* a cache of the page, named 'apra-shka'
OtherCacheName == <<"a", "p", "r", "a", "-", "s", "h", "k", "a">>

IndexHtml == [pathname |-> <<"/", "i", "n", "d", "e", "x", ".", "h", "t", "m", "l">>,
              search |-> <<>>]

MapJs == [pathname |-> <<"/", "j", "s", "/", "m", "a", "p", ".", "j", "s">>,
          search |-> <<>>]

\* /rest/v1/pavilions?select=*
ApiUrl == [pathname |-> <<"/", "r", "e", "s", "t", "/", "v", "1", "/", "p", "a",
                          "v", "i", "l", "i", "o", "n", "s">>,
           search |-> <<"?", "s", "e", "l", "e", "c", "t", "=", "*">>]

\* /dl?f=a.js: the extension is in the query, not in the path
QueryUrl == [pathname |-> <<"/", "d", "l">>,
             search |-> <<"?", "f", "=", "a", ".", "j", "s">>]

Urls == {IndexHtml, MapJs, ApiUrl, QueryUrl}

\* the first and the last of the ten files; addAll and updateCache treat
\* every file of the list alike
STATIC_ASSETS == <<IndexHtml, MapJs>>

CACHEABLE_EXTENSIONS ==
  { <<".", "j", "s">>, <<".", "c", "s", "s">>, <<".", "h", "t", "m", "l">>,
    <<".", "j", "s", "o", "n">>, <<".", "s", "v", "g">>, <<".", "p", "n", "g">>,
    <<".", "j", "p", "g">>, <<".", "j", "p", "e", "g">>, <<".", "g", "i", "f">>,
    <<".", "w", "e", "b", "p">>, <<".", "w", "o", "f", "f">>,
    <<".", "w", "o", "f", "f", "2">>, <<".", "t", "t", "f">> }

NETWORK_TIMEOUT == 5000

\* String.prototype.endsWith and startsWith
EndsWith(str, suffix) ==
  /\ Len(str) >= Len(suffix)
  /\ SubSeq(str, Len(str) - Len(suffix) + 1, Len(str)) = suffix

StartsWith(str, prefix) ==
  /\ Len(str) >= Len(prefix)
  /\ SubSeq(str, 1, Len(prefix)) = prefix

Requests == [method : {"GET", "POST"}, url : Urls]

\* what the network does with a request: a response, or the fetch rejects
Failed == [failed |-> TRUE]

Response(status, body) == [status |-> status, body |-> body]

\* the server's answers: the current content, or an error page
NetworkOutcomes == {Response(200, sw.server), Response(404, "none"), Failed}

\* new Response(..., {status: 503, statusText: 'Service Unavailable'})
Offline == Response(503, "Service Unavailable")

\* caches.keys(): the names in the order of creation
CacheKeysOf(cs) == [i \in 1..Len(cs) |-> cs[i].name]

HasCache(cs, name) == \E i \in 1..Len(cs) : cs[i].name = name

\* caches.open(name) creates the cache when there is none
OpenCache(cs, name) ==
  IF HasCache(cs, name) THEN cs
  ELSE Append(cs, [name |-> name, entries |-> [u \in Urls |-> NULL]])

\* cache.put(url, response) on the cache of that name
PutIn(cs, name, url, response) ==
  [i \in 1..Len(cs) |->
     IF cs[i].name = name THEN [cs[i] EXCEPT !.entries[url] = response] ELSE cs[i]]

\* caches.match(request): the first cache, in the order of creation, that
\* has the URL; NULL for undefined
MatchAll(cs, url) ==
  LET hits == {i \in 1..Len(cs) : cs[i].entries[url] # NULL}
  IN  IF hits = {} THEN NULL
      ELSE cs[CHOOSE i \in hits : \A j \in hits : i <= j].entries[url]

\* the entries of the cache of that name, NULL when there is none
EntriesOf(cs, name) ==
  LET hits == {i \in 1..Len(cs) : cs[i].name = name}
  IN  IF hits = {} THEN NULL ELSE cs[CHOOSE i \in hits : TRUE].entries

----------------------------------------------------------------------------
(* sw.js: the handlers *)

isStaticAssetAnywhere(url) ==
  \E ext \in CACHEABLE_EXTENSIONS : EndsWith(url.pathname \o url.search, ext)

\* CACHEABLE_EXTENSIONS.some((ext) => url.pathname.endsWith(ext))
isStaticAsset(url) ==
  \E ext \in CACHEABLE_EXTENSIONS : EndsWith(url.pathname, ext)

\* the fetch listener: which strategy answers, "none" without respondWith
StrategyFor(request) ==
  IF request.method # "GET" THEN "none"
  ELSE IF isStaticAsset(request.url) THEN "cacheFirst"
  ELSE "networkFirst"

\* the network response goes to the current cache when its status is 200;
\* cache.put is not awaited and may fail
Keep(cs, url, response, putOk) ==
  IF response.status # 200 THEN cs
  ELSE IF putOk THEN PutIn(OpenCache(cs, CACHE_NAME), CACHE_NAME, url, response)
  ELSE OpenCache(cs, CACHE_NAME)

\* the catch blocks: the cached response, or the 503 one
Fallback(cs, url) ==
  IF MatchAll(cs, url) # NULL THEN MatchAll(cs, url) ELSE Offline

Answer(response, cs, elapsed) ==
  [response |-> response, caches |-> cs, elapsed |-> elapsed]

cacheFirstStrategyKeepsAll(cs, url, outcome, putOk) ==
  IF outcome = Failed THEN Answer(Fallback(cs, url), cs, 0)
  ELSE Answer(outcome,
              IF putOk THEN PutIn(OpenCache(cs, CACHE_NAME), CACHE_NAME, url, outcome)
              ELSE cs, 0)

\* cacheFirstStrategy from the answer of the network on (the cache had
\* nothing when the request came in)
cacheFirstStrategy(cs, url, outcome, putOk) ==
  IF outcome = Failed THEN Answer(Fallback(cs, url), cs, 0)
  ELSE Answer(outcome, Keep(cs, url, outcome, putOk), 0)

\* the network never answers
Hangs == [hangs |-> TRUE]

networkFirstStrategyNoTimeout(cs, url, outcome, took, timerFirst, putOk) ==
  IF outcome = Hangs THEN Answer(Fallback(cs, url), cs, NETWORK_TIMEOUT)
  ELSE IF outcome = Failed THEN Answer(Fallback(cs, url), cs, took)
  ELSE Answer(outcome, Keep(cs, url, outcome, putOk), took)

\* networkFirstStrategy: the network settles after took ms, racing the
\* timer of NETWORK_TIMEOUT ms; timerFirst says whose callback runs first
\* when both are due at the same time
networkFirstStrategy(cs, url, outcome, took, timerFirst, putOk) ==
  LET timedOut == \/ outcome = Hangs
                  \/ took > NETWORK_TIMEOUT
                  \/ took = NETWORK_TIMEOUT /\ timerFirst
  IN  IF timedOut THEN Answer(Fallback(cs, url), cs, NETWORK_TIMEOUT)
      ELSE IF outcome = Failed THEN Answer(Fallback(cs, url), cs, took)
      ELSE Answer(outcome, Keep(cs, url, outcome, putOk), took)

isCacheStaleAnyName(cacheName) == cacheName # CACHE_NAME

\* cacheName.startsWith('apra-shka-') && cacheName !== CACHE_NAME
isCacheStale(cacheName) ==
  StartsWith(cacheName, CachePrefix) /\ cacheName # CACHE_NAME

IsKept(c) == ~isCacheStale(c.name)

\* cache.addAll: every file is fetched, and all are stored or none
AddAll(cs, name, urls, outcomes) ==
  IF \A i \in 1..Len(urls) : outcomes[i] # Failed /\ outcomes[i].status = 200
  THEN LET RECURSIVE Put(_, _)
           Put(c, i) == IF i > Len(urls) THEN c
                        ELSE Put(PutIn(c, name, urls[i], outcomes[i]), i + 1)
       IN  Put(cs, 1)
  ELSE cs

\* each file on its own: stored when the fetch gave status 200
AddEach(cs, name, urls, outcomes) ==
  LET RECURSIVE Put(_, _)
      Put(c, i) ==
        IF i > Len(urls) THEN c
        ELSE IF outcomes[i] # Failed /\ outcomes[i].status = 200
        THEN Put(PutIn(c, name, urls[i], outcomes[i]), i + 1)
        ELSE Put(c, i + 1)
  IN  Put(cs, 1)

----------------------------------------------------------------------------
(* The floor plan: coordinates are percentages of the image size *)

Abs(v) == IF v < 0 THEN -v ELSE v

\* pavilion.coordinates is there and not null
HasCoordinates(pavilion) == "coordinates" \in DOMAIN pavilion

\* pavilion.coordinates.x || 0
CoordX(pavilion) ==
  IF "x" \in DOMAIN pavilion.coordinates THEN pavilion.coordinates.x ELSE 0

CoordY(pavilion) ==
  IF "y" \in DOMAIN pavilion.coordinates THEN pavilion.coordinates.y ELSE 0

tolerance == 5

findPavilionAtPointInclusive(list, xPercent, yPercent) ==
  LET hits == {i \in 1..Len(list) :
                 /\ HasCoordinates(list[i])
                 /\ Abs(CoordX(list[i]) - xPercent) <= tolerance
                 /\ Abs(CoordY(list[i]) - yPercent) <= tolerance}
  IN  IF hits = {} THEN NULL
      ELSE list[CHOOSE i \in hits : \A j \in hits : i <= j]

findPavilionAtPointLast(list, xPercent, yPercent) ==
  LET hits == {i \in 1..Len(list) :
                 /\ HasCoordinates(list[i])
                 /\ Abs(CoordX(list[i]) - xPercent) < tolerance
                 /\ Abs(CoordY(list[i]) - yPercent) < tolerance}
  IN  IF hits = {} THEN NULL
      ELSE list[CHOOSE i \in hits : \A j \in hits : i >= j]

\* the loop returns at the first pavilion of the list that passes the test
findPavilionAtPoint(list, xPercent, yPercent) ==
  LET hits == {i \in 1..Len(list) :
                 /\ HasCoordinates(list[i])
                 /\ Abs(CoordX(list[i]) - xPercent) < tolerance
                 /\ Abs(CoordY(list[i]) - yPercent) < tolerance}
  IN  IF hits = {} THEN NULL
      ELSE list[CHOOSE i \in hits : \A j \in hits : i <= j]

----------------------------------------------------------------------------
(* pavilion.js: the pavilion page *)

Sections == {"contacts-section", "discounts-section", "additional-categories",
             "stats-section"}

\* the page before its script has run: the module variables as declared,
\* the URL with ?id=, and the sections as the document shows them
PavPageLoaded(sectionsShown) ==
  [currentPavilion |-> NULL, currentTenant |-> NULL, isPremium |-> FALSE,
   slugUrl |-> FALSE, display |-> [e \in Sections |-> sectionsShown]]

NoPavPage == PavPageLoaded(FALSE)

\* Data.getTenantById: the local copy first, then the row with all columns;
\* NULL when the request fails or finds nothing
getTenantById(id, httpOk) ==
  LET local == FindById(DataState.tenants, id)
  IN  IF local # NULL THEN local
      ELSE IF httpOk /\ id \in Tenants
      THEN [id |-> id, phone |-> PhoneOf(id), approved |-> tenants[id].approved,
            is_owner |-> tenants[id].is_owner, is_premium |-> premium[id]]
      ELSE NULL

checkPremiumStatusAnyTenant(tenant) == tenant # NULL

\* !!tenant.is_premium, false without tenant
checkPremiumStatus(tenant) ==
  /\ tenant # NULL
  /\ "is_premium" \in DOMAIN tenant
  /\ tenant.is_premium

\* isPremium === true
canUseSlug(isPremium) == isPremium

\* renderContacts and togglePremiumFeatures: the display of every section
togglePremiumFeatures(flag) == [e \in Sections |-> flag]

----------------------------------------------------------------------------
(* The operations *)

Did(op, arg, result, req, nav) ==
  [op |-> op, arg |-> arg, result |-> result, req |-> req, nav |-> nav]

AuthVars == <<session, currentTenant, lastActivity, pendingLogin>>

DataVars == <<pavilions, cache, DataState>>

AdminVars == <<state, shown>>

Clock == <<now, ticks, writes>>

\* what auth.js, data.js and superadmin.js never touch
Elsewhere == <<sw, floorPlanState, premium, pavPage>>

\* a document is loaded: DOMContentLoaded runs initAuth, initData and, on the
\* superadmin page, init; requests of the document left behind are dropped
PageLoad(p, httpOk, quotaOk) ==
  LET restored == session
      loaded == loadCacheFromStorage(cache)
      adm == init(restored, loaded.cache, loaded.ds, httpOk, quotaOk)
  IN  /\ page' = p
      /\ currentTenant' = restored
      /\ lastActivity' = Some(now)
      /\ pendingLogin' = NULL
      /\ IF p = "superadmin"
         THEN /\ state' = adm.state
              /\ shown' = adm.shown
              /\ DataState' = adm.ds
              /\ cache' = adm.cache
              /\ last' = Did("load", p, adm.hasAccess, NoReq, "none")
         ELSE /\ state' = FreshState
              /\ shown' = NothingShown
              /\ DataState' = loaded.ds
              /\ cache' = loaded.cache
              /\ last' = Did("load", p, FALSE, NoReq, "none")
      /\ UNCHANGED <<tenants, pavilions, session, now, ticks, writes>>
      /\ UNCHANGED Elsewhere

\* handleLoginFormSubmit up to the fetch of checkPhone; formatPhoneNumber
\* or the format check of checkPhone may throw before anything is sent
LoginSubmit(raw) ==
  LET formattedPhone == formatPhoneNumber(raw)
  IN  /\ pendingLogin = NULL
      /\ IF formattedPhone = Threw
         THEN /\ last' = Did("loginSubmit", raw, "error", NoReq, "none")
              /\ UNCHANGED pendingLogin
         ELSE IF checkPhone(formattedPhone.some, TRUE) = Threw
         THEN /\ last' = Did("loginSubmit", raw, "error", NoReq, "none")
              /\ UNCHANGED pendingLogin
         ELSE /\ pendingLogin' = formattedPhone
              /\ last' = Did("loginSubmit", raw, "sent", NoReq, "none")
      /\ UNCHANGED <<tenants, session, currentTenant, lastActivity, page>>
      /\ UNCHANGED <<DataVars, AdminVars, Clock>>
      /\ UNCHANGED Elsewhere

\* handleLoginFormSubmit from the answer of the backend on
LoginResponse(httpOk) ==
  LET tenant == checkPhone(pendingLogin.some, httpOk)
      answered == [phone |-> pendingLogin.some, httpOk |-> httpOk]
  IN  /\ pendingLogin # NULL
      /\ pendingLogin' = NULL
      /\ IF tenant = Threw
         THEN /\ last' = Did("loginResponse", answered, "error", NoReq, "none")
              /\ UNCHANGED <<session, currentTenant>>
         ELSE IF tenant = NULL
         THEN /\ last' = Did("loginResponse", answered, "refused", NoReq, "none")
              /\ UNCHANGED <<session, currentTenant>>
         ELSE /\ currentTenant' = SessionOf(tenant)
              /\ session' = SessionOf(tenant)
              /\ last' = Did("loginResponse", answered, "session", NoReq, "admin.html")
      /\ UNCHANGED <<tenants, lastActivity, page>>
      /\ UNCHANGED <<DataVars, AdminVars, Clock>>
      /\ UNCHANGED Elsewhere

LogoutKeepsStorage ==
  /\ currentTenant' = NULL
  /\ lastActivity' = NULL
  /\ last' = Did("logout", NULL, TRUE, NoReq, "index.html")
  /\ UNCHANGED <<tenants, session, pendingLogin, page>>
  /\ UNCHANGED <<DataVars, AdminVars, Clock>>
  /\ UNCHANGED Elsewhere

Logout ==
  /\ currentTenant' = NULL
  /\ lastActivity' = NULL
  /\ session' = NULL
  /\ last' = Did("logout", NULL, TRUE, NoReq, "index.html")
  /\ UNCHANGED <<tenants, pendingLogin, page>>
  /\ UNCHANGED <<DataVars, AdminVars, Clock>>
  /\ UNCHANGED Elsewhere

RequireAuth ==
  /\ last' = Did("requireAuth", NULL, isAuthenticated, NoReq,
                 IF isAuthenticated THEN "none" ELSE "index.html")
  /\ UNCHANGED <<tenants, page>>
  /\ UNCHANGED <<AuthVars, DataVars, AdminVars, Clock>>
  /\ UNCHANGED Elsewhere

\* the click listener initAuth installs on the document
Click ==
  /\ lastActivity' = Some(now)
  /\ last' = Did("click", NULL, TRUE, NoReq, "none")
  /\ UNCHANGED <<tenants, session, currentTenant, pendingLogin, page>>
  /\ UNCHANGED <<DataVars, AdminVars, Clock>>
  /\ UNCHANGED Elsewhere

\* the administration changes the approved flag of a row in the database
SetApproved(t, value) ==
  /\ tenants[t].approved # value
  /\ tenants' = [tenants EXCEPT ![t].approved = value]
  /\ last' = Did("setApproved", t, value, NoReq, "none")
  /\ UNCHANGED <<page>>
  /\ UNCHANGED <<AuthVars, DataVars, AdminVars, Clock>>
  /\ UNCHANGED Elsewhere

TickSteps == {1, CACHE_TIMEOUT, SESSION_TIMEOUT * HourMs}

Tick(d) ==
  /\ ticks < MaxTicks
  /\ ticks' = ticks + 1
  /\ now' = now + d
  /\ last' = Did("tick", d, TRUE, NoReq, "none")
  /\ UNCHANGED <<tenants, page, writes>>
  /\ UNCHANGED <<AuthVars, DataVars, AdminVars>>
  /\ UNCHANGED Elsewhere

ApproveTenant(id) ==
  /\ page = "superadmin"
  /\ tenants' = updateTenantCall(id, [approved |-> TRUE])
  /\ state' = [state EXCEPT !.allTenants = MarkTenant(id, TRUE)]
  /\ last' = Did("approveTenant", id, "success", NoReq, "none")
  /\ UNCHANGED <<shown, page>>
  /\ UNCHANGED <<AuthVars, DataVars, Clock>>
  /\ UNCHANGED Elsewhere

RejectTenant(id) ==
  /\ page = "superadmin"
  /\ tenants' = updateTenantCall(id, [approved |-> FALSE])
  /\ state' = [state EXCEPT !.allTenants = MarkTenant(id, FALSE)]
  /\ last' = Did("rejectTenant", id, "success", NoReq, "none")
  /\ UNCHANGED <<shown, page>>
  /\ UNCHANGED <<AuthVars, DataVars, Clock>>
  /\ UNCHANGED Elsewhere

\* one more call of a write operation
Called ==
  /\ writes < MaxWrites
  /\ writes' = writes + 1
  /\ UNCHANGED <<now, ticks>>

\* the write of data.js takes effect as its outcome says
Apply(r) ==
  /\ pavilions' = r.pavilions
  /\ DataState' = r.ds
  /\ cache' = r.cache

Result(r) == IF r.threw THEN "threw" ELSE "ok"

\* the pavilion a write is aimed at, as getPavilionById found it
Target(id, getOk) == [id |-> id, found |-> getPavilionById(id, getOk)]

GetAllPavilions(httpOk, quotaOk) ==
  LET r == getAllPavilions(cache, DataState, httpOk, quotaOk)
  IN  /\ DataState' = r.ds
      /\ cache' = r.cache
      /\ last' = Did("getAllPavilions", [httpOk |-> httpOk, quotaOk |-> quotaOk],
                     r.ret, IF r.fetched THEN [method |-> "GET"] ELSE NoReq, "none")
      /\ UNCHANGED <<tenants, pavilions, page>>
      /\ UNCHANGED <<AuthVars, AdminVars, Clock>>
      /\ UNCHANGED Elsewhere

CreatePavilion(data, id, resp) ==
  LET r == createPavilion(data, id, resp)
  IN  /\ Apply(r)
      /\ last' = Did("createPavilion", [data |-> data, ret |-> r.ret],
                     Result(r), r.req, "none")
      /\ UNCHANGED <<tenants, page>>
      /\ UNCHANGED <<AuthVars, AdminVars>>
      /\ Called
      /\ UNCHANGED Elsewhere

UpdatePavilion(id, data, getOk, resp) ==
  LET r == updatePavilion(id, data, getOk, resp)
  IN  /\ Apply(r)
      /\ last' = Did("updatePavilion", Target(id, getOk), Result(r), r.req, "none")
      /\ UNCHANGED <<tenants, page>>
      /\ UNCHANGED <<AuthVars, AdminVars>>
      /\ Called
      /\ UNCHANGED Elsewhere

DeletePavilion(id, getOk, resp) ==
  LET r == deletePavilion(id, getOk, resp)
  IN  /\ Apply(r)
      /\ last' = Did("deletePavilion", Target(id, getOk), Result(r), r.req, "none")
      /\ UNCHANGED <<tenants, page>>
      /\ UNCHANGED <<AuthVars, AdminVars>>
      /\ Called
      /\ UNCHANGED Elsewhere

\* what a call about a discount was given and what it found
DiscountCall(id, getOk, discountId, discountData, generated) ==
  [id |-> id, found |-> getPavilionById(id, getOk), discountId |-> discountId,
   data |-> discountData, generated |-> generated]

AddDiscount(id, discountData, generated, getOk, resp) ==
  LET r == addDiscount(id, discountData, generated, now, getOk, resp)
  IN  /\ Apply(r)
      /\ last' = Did("addDiscount",
                     DiscountCall(id, getOk, NULL, discountData, generated),
                     Result(r), r.req, "none")
      /\ UNCHANGED <<tenants, page>>
      /\ UNCHANGED <<AuthVars, AdminVars>>
      /\ Called
      /\ UNCHANGED Elsewhere

RemoveDiscount(id, discountId, getOk, resp) ==
  LET r == removeDiscount(id, discountId, getOk, resp)
  IN  /\ Apply(r)
      /\ last' = Did("removeDiscount",
                     DiscountCall(id, getOk, discountId, NULL, NULL),
                     Result(r), r.req, "none")
      /\ UNCHANGED <<tenants, page>>
      /\ UNCHANGED <<AuthVars, AdminVars>>
      /\ Called
      /\ UNCHANGED Elsewhere

UpdateDiscount(id, discountId, discountData, getOk, resp) ==
  LET r == updateDiscount(id, discountId, discountData, now, getOk, resp)
  IN  /\ Apply(r)
      /\ last' = Did("updateDiscount",
                     DiscountCall(id, getOk, discountId, discountData, NULL),
                     Result(r), r.req, "none")
      /\ UNCHANGED <<tenants, page>>
      /\ UNCHANGED <<AuthVars, AdminVars>>
      /\ Called
      /\ UNCHANGED Elsewhere

\* SuperAdmin.loadAllPavilions, as window.SuperAdmin exports it
SaLoadAllPavilions(httpOk, quotaOk) ==
  LET r == getAllPavilions(cache, DataState, httpOk, quotaOk)
  IN  /\ page = "superadmin"
      /\ state' = [state EXCEPT !.allPavilions = r.ret]
      /\ DataState' = r.ds
      /\ cache' = r.cache
      /\ last' = Did("SuperAdmin.loadAllPavilions", r.fetched, "ok", NoReq, "none")
      /\ UNCHANGED <<tenants, pavilions, shown, page>>
      /\ UNCHANGED <<AuthVars, Clock>>
      /\ UNCHANGED Elsewhere

\* SuperAdmin.deletePavilion: confirm(), then window.Data.deletePavilion
SaDeletePavilion(id, confirmed, getOk, resp) ==
  LET r == deletePavilion(id, getOk, resp)
      arg == [id |-> id, confirmed |-> confirmed, answer |-> resp,
              listed |-> FindById(state.allPavilions, id) # NULL]
  IN  /\ page = "superadmin"
      /\ IF ~confirmed
         THEN /\ last' = Did("SuperAdmin.deletePavilion", arg, "cancelled", NoReq, "none")
              /\ UNCHANGED <<DataVars, state>>
         ELSE IF r.threw
         THEN /\ Apply(r)
              /\ last' = Did("SuperAdmin.deletePavilion", arg, "error", r.req, "none")
              /\ UNCHANGED state
         ELSE /\ Apply(r)
              /\ state' = [state EXCEPT !.allPavilions =
                             SelectSeq(@, LAMBDA p : HasOtherId(id, p))]
              /\ last' = Did("SuperAdmin.deletePavilion", arg, "success", r.req, "none")
      /\ UNCHANGED <<tenants, shown, page>>
      /\ UNCHANGED AuthVars
      /\ Called
      /\ UNCHANGED Elsewhere

\* SuperAdmin.togglePavPremium: the pavilion is looked up in state.allPavilions
SaTogglePavPremium(id, getOk, resp) ==
  LET pavilion == FindById(state.allPavilions, id)
      newStatus == ~pavilion.is_premium
      r == updatePavilion(id, [is_premium |-> newStatus], getOk, resp)
      index == FindIndex(state.allPavilions, id)
      arg == [id |-> id, answer |-> resp, listed |-> pavilion # NULL]
  IN  /\ page = "superadmin"
      /\ IF pavilion = NULL
         THEN /\ last' = Did("SuperAdmin.togglePavPremium", arg, "error", NoReq, "none")
              /\ UNCHANGED <<DataVars, state>>
         ELSE IF r.threw
         THEN /\ Apply(r)
              /\ last' = Did("SuperAdmin.togglePavPremium", arg, "error", r.req, "none")
              /\ UNCHANGED state
         ELSE /\ Apply(r)
              /\ state' = [state EXCEPT !.allPavilions[index].is_premium = newStatus]
              /\ last' = Did("SuperAdmin.togglePavPremium", arg, "success", r.req, "none")
      /\ UNCHANGED <<tenants, shown, page>>
      /\ UNCHANGED AuthVars
      /\ Called
      /\ UNCHANGED Elsewhere

\* another client changes a row of the pavilions table
BackendChange(id) ==
  /\ IsRow(pavilions[id])
  /\ pavilions' = [pavilions EXCEPT ![id].is_premium = ~@]
  /\ last' = Did("backendChange", id, TRUE, NoReq, "none")
  /\ UNCHANGED <<tenants, cache, DataState, page>>
  /\ UNCHANGED <<AuthVars, AdminVars, Clock>>
  /\ UNCHANGED Elsewhere

\* window.Data.getCacheData(key); arg keeps the entry that was in storage
GetCacheData(key) ==
  LET r == getCacheData(cache, key)
  IN  /\ cache' = r.cache
      /\ last' = Did("getCacheData", [key |-> key, entry |-> cache[key]],
                     r.ret, NoReq, "none")
      /\ UNCHANGED <<tenants, pavilions, DataState, page>>
      /\ UNCHANGED <<AuthVars, AdminVars, Clock>>
      /\ UNCHANGED Elsewhere

SetCacheData(key, value, quotaOk) ==
  /\ cache' = setCacheData(cache, key, value, quotaOk)
  /\ last' = Did("setCacheData", [key |-> key, value |-> value], quotaOk, NoReq, "none")
  /\ UNCHANGED <<tenants, pavilions, DataState, page>>
  /\ UNCHANGED <<AuthVars, AdminVars, Clock>>
  /\ UNCHANGED Elsewhere

ClearCacheData(key) ==
  /\ cache' = clearCacheData(cache, key)
  /\ last' = Did("clearCacheData", key, TRUE, NoReq, "none")
  /\ UNCHANGED <<tenants, pavilions, DataState, page>>
  /\ UNCHANGED <<AuthVars, AdminVars, Clock>>
  /\ UNCHANGED Elsewhere

\* something else than data.js leaves text that is not JSON under the key
Tamper(key) ==
  /\ cache[key] # Unparsable
  /\ cache' = [cache EXCEPT ![key] = Unparsable]
  /\ last' = Did("tamper", key, TRUE, NoReq, "none")
  /\ UNCHANGED <<tenants, pavilions, DataState, page>>
  /\ UNCHANGED <<AuthVars, AdminVars, Clock>>
  /\ UNCHANGED Elsewhere

\* what sw.js never touches
ClientVars == <<tenants, pavilions, session, cache, currentTenant, lastActivity,
                pendingLogin, DataState, state, shown, page, now, ticks, writes,
                floorPlanState, premium, pavPage>>

Outcomes(urls) == [1..Len(urls) -> NetworkOutcomes]

\* the install listener: a failure of addAll is caught and logged, so the
\* promise given to waitUntil is fulfilled either way
SwInstall(outcomes) ==
  LET opened == OpenCache(sw.caches, CACHE_NAME)
  IN  /\ sw.state = "installing"
      /\ sw' = [sw EXCEPT !.state = "installed",
                          !.caches = AddAll(opened, CACHE_NAME, STATIC_ASSETS, outcomes)]
      /\ last' = Did("install", outcomes, TRUE, NoReq, "none")
      /\ UNCHANGED ClientVars

\* the activate listener
SwActivate ==
  /\ sw.state = "installed"
  /\ sw' = [sw EXCEPT !.state = "activated",
                      !.caches = SelectSeq(sw.caches, IsKept)]
  /\ last' = Did("activate", CacheKeysOf(sw.caches), TRUE, NoReq, "none")
  /\ UNCHANGED ClientVars

\* what the fetch listener has done when it returns
Routed(how, response) == [how |-> how, response |-> response]

\* the fetch listener up to the first answer or the request to the network
SwFetch(request) ==
  LET strategy == StrategyFor(request)
      cachedResponse == MatchAll(sw.caches, request.url)
      arg == [request |-> request, strategy |-> strategy]
  IN  /\ sw.state = "activated"
      /\ sw.pending = NULL
      /\ IF strategy = "none"
         THEN /\ last' = Did("fetch", arg, Routed("notAnswered", NULL), NoReq, "none")
              /\ UNCHANGED sw
         ELSE IF strategy = "cacheFirst" /\ cachedResponse # NULL
         THEN /\ last' = Did("fetch", arg, Routed("answered", cachedResponse),
                             NoReq, "none")
              /\ UNCHANGED sw
         ELSE /\ sw' = [sw EXCEPT !.pending = arg]
              /\ last' = Did("fetch", arg, Routed("pending", NULL),
                             [method |-> "GET"], "none")
      /\ UNCHANGED ClientVars

Tooks == {NETWORK_TIMEOUT - 1, NETWORK_TIMEOUT, NETWORK_TIMEOUT + 1}

\* the network settles the request in flight and the strategy answers
SwSettle(outcome, took, timerFirst, putOk) ==
  LET url == sw.pending.request.url
      r == IF sw.pending.strategy = "cacheFirst"
           THEN cacheFirstStrategy(sw.caches, url, outcome, putOk)
           ELSE networkFirstStrategy(sw.caches, url, outcome, took, timerFirst, putOk)
      arg == [request |-> sw.pending.request, strategy |-> sw.pending.strategy,
              outcome |-> outcome, took |-> took]
  IN  /\ sw.pending # NULL
      /\ sw.pending.strategy = "cacheFirst" =>
            (outcome # Hangs /\ took = NETWORK_TIMEOUT - 1 /\ ~timerFirst)
      /\ outcome = Hangs => took > NETWORK_TIMEOUT
      /\ sw' = [sw EXCEPT !.pending = NULL, !.caches = r.caches]
      /\ last' = Did("settle", arg, r, [method |-> "GET"], "none")
      /\ UNCHANGED ClientVars

MessageTypes == {"SKIP_WAITING", "CLEAR_CACHE", "CACHE_URLS", "OTHER"}

Payloads == {<<ApiUrl>>, <<IndexHtml, QueryUrl>>}

\* the message listener
SwMessage(type, urls, outcomes) ==
  /\ sw.state \in {"installed", "activated"}
  /\ sw' = IF type = "CLEAR_CACHE"
           THEN [sw EXCEPT !.caches = <<>>, !.cleared = TRUE]
           ELSE IF type = "CACHE_URLS"
           THEN [sw EXCEPT !.caches = AddEach(OpenCache(sw.caches, CACHE_NAME),
                                              CACHE_NAME, urls, outcomes)]
           ELSE sw
  /\ last' = Did("message", [type |-> type, urls |-> urls], TRUE, NoReq, "none")
  /\ UNCHANGED ClientVars

\* the sync listener and updateCache
SwSync(tag, outcomes) ==
  /\ sw.state = "activated"
  /\ sw' = IF tag = "update-cache"
           THEN [sw EXCEPT !.caches = AddEach(OpenCache(sw.caches, CACHE_NAME),
                                              CACHE_NAME, STATIC_ASSETS, outcomes)]
           ELSE sw
  /\ last' = Did("sync", tag, TRUE, NoReq, "none")
  /\ UNCHANGED ClientVars

\* new content is deployed on the server
SwDeploy ==
  /\ sw.server = "a"
  /\ sw' = [sw EXCEPT !.server = "b"]
  /\ last' = Did("deploy", NULL, TRUE, NoReq, "none")
  /\ UNCHANGED ClientVars

\* what the floor-plan module never touches
NotFloorPlan == <<tenants, pavilions, session, cache, currentTenant, lastActivity,
                  pendingLogin, DataState, state, shown, page, now, ticks, writes,
                  sw, premium, pavPage>>

\* FloorPlan.updatePavilionsList(pavilions)
UpdatePavilionsList(list) ==
  /\ floorPlanState' = [floorPlanState EXCEPT !.pavilionsList = list]
  /\ last' = Did("updatePavilionsList", list, TRUE, NoReq, "none")
  /\ UNCHANGED NotFloorPlan

\* handleCanvasClick, with the point of the click as percentages
HandleCanvasClick(xPercent, yPercent) ==
  LET pavilion == findPavilionAtPoint(floorPlanState.pavilionsList, xPercent, yPercent)
  IN  /\ floorPlanState' =
            IF pavilion # NULL
            THEN [floorPlanState EXCEPT !.selectedPavilion = Some(pavilion.pavilion_number)]
            ELSE floorPlanState
      /\ last' = Did("canvasClick", [x |-> xPercent, y |-> yPercent], pavilion,
                     NoReq, "none")
      /\ UNCHANGED NotFloorPlan

\* what pavilion.js never touches
NotPavPage == <<tenants, pavilions, session, cache, currentTenant, lastActivity,
                pendingLogin, DataState, state, shown, page, now, ticks, writes,
                sw, floorPlanState, premium>>

\* the pavilion page is loaded with ?id=<id> and init runs
PavInit(id, httpOk, sectionsShown) ==
  LET fresh == PavPageLoaded(sectionsShown)
      pavilion == getPavilionById(id, httpOk)
      tenant == getTenantById(pavilion.tenant_id, httpOk)
      isPremium == checkPremiumStatus(tenant)
  IN  /\ IF pavilion = NULL
         THEN /\ pavPage' = fresh
              /\ last' = Did("pavInit", id, "notFound", NoReq, "none")
         ELSE /\ pavPage' = [currentPavilion |-> pavilion,
                             currentTenant |-> tenant,
                             isPremium |-> isPremium,
                             slugUrl |-> isPremium /\ canUseSlug(isPremium),
                             display |-> togglePremiumFeatures(isPremium)]
              /\ last' = Did("pavInit", id, "done", NoReq, "none")
      /\ UNCHANGED NotPavPage

\* Pavilion.contactOwner()
ContactOwner ==
  /\ last' = Did("contactOwner", NULL,
                 IF pavPage.currentPavilion = NULL THEN "nothing"
                 ELSE IF ~pavPage.isPremium THEN "premiumOnly"
                 ELSE IF pavPage.currentTenant = NULL THEN "noPhone"
                 ELSE "opened",
                 NoReq, "none")
  /\ UNCHANGED <<pavPage, NotPavPage>>

\* the is_premium flag of a tenant is changed in the database
SetPremium(t, value) ==
  /\ premium[t] # value
  /\ premium' = [premium EXCEPT ![t] = value]
  /\ last' = Did("setPremium", t, value, NoReq, "none")
  /\ UNCHANGED <<tenants, pavilions, session, cache, currentTenant, lastActivity,
                 pendingLogin, DataState, state, shown, page, now, ticks, writes,
                 sw, floorPlanState, pavPage>>

\* window.Data.getAllTenants()
GetAllTenants(httpOk, quotaOk) ==
  LET r == getAllTenants(cache, DataState, httpOk, quotaOk)
  IN  /\ DataState' = r.ds
      /\ cache' = r.cache
      /\ last' = Did("getAllTenants", [httpOk |-> httpOk, quotaOk |-> quotaOk],
                     r.ret, IF r.fetched THEN [method |-> "GET"] ELSE NoReq, "none")
      /\ UNCHANGED <<tenants, pavilions, page>>
      /\ UNCHANGED <<AuthVars, AdminVars, Clock>>
      /\ UNCHANGED Elsewhere

----------------------------------------------------------------------------

StartTime == 1000

InitClient ==
  /\ tenants \in [Tenants -> [approved : BOOLEAN, is_owner : BOOLEAN]]
  /\ tenants["t1"].is_owner
  /\ ~tenants["t2"].is_owner
  /\ pavilions = [p \in PavIds |->
       IF p = "p1" THEN [id |-> "p1", tenant_id |-> "t1", is_premium |-> FALSE,
                         discounts |-> <<>>]
       ELSE IF p = "p2" THEN [id |-> "p2", tenant_id |-> "t2", is_premium |-> FALSE,
                              discounts |-> <<>>]
       ELSE NotCreated]
  /\ session = NULL
  /\ cache = [k \in CacheKeys |-> NULL]
  /\ currentTenant = NULL
  /\ lastActivity = Some(StartTime)
  /\ pendingLogin = NULL
  /\ DataState = [pavilions |-> <<>>, tenants |-> <<>>]
  /\ state = FreshState
  /\ shown = NothingShown
  /\ page = "index"
  /\ now = StartTime
  /\ ticks = 0
  /\ writes = 0
  /\ last = Did("load", "index", FALSE, NoReq, "none")

Init ==
  /\ InitClient
  /\ sw = NULL
  /\ floorPlanState = [selectedPavilion |-> NULL, pavilionsList |-> <<>>]
  /\ premium = [t \in Tenants |-> FALSE]
  /\ pavPage = NoPavPage

Next ==
  \/ \E p \in Pages, httpOk \in BOOLEAN, quotaOk \in BOOLEAN : PageLoad(p, httpOk, quotaOk)
  \/ \E raw \in RawInputs : LoginSubmit(raw)
  \/ \E httpOk \in BOOLEAN : LoginResponse(httpOk)
  \/ Logout
  \/ RequireAuth
  \/ \E t \in Tenants, value \in BOOLEAN : SetApproved(t, value)
  \/ \E id \in Tenants : ApproveTenant(id)
  \/ \E id \in Tenants : RejectTenant(id)

Spec == Init /\ [][Next]_vars

\* the session over time: the clock advances between the operations
NextTime ==
  \/ \E p \in Pages : PageLoad(p, TRUE, TRUE)
  \/ \E raw \in RawInputs : LoginSubmit(raw)
  \/ \E httpOk \in BOOLEAN : LoginResponse(httpOk)
  \/ Logout
  \/ RequireAuth
  \/ Click
  \/ \E d \in TickSteps : Tick(d)

SpecTime == Init /\ [][NextTime]_vars

\* what a caller may pass as the fields of a pavilion
PavilionData == [tenant_id : Tenants, is_premium : {FALSE}]

Patches == [is_premium : {TRUE}]

\* one way of typing the phone of each tenant
OwnInputs == {raw \in RawInputs : formatPhoneNumber(raw) \in {Some(PhoneOf(t)) : t \in Tenants}}

InitData == Init /\ \A t \in Tenants : tenants[t].approved

\* the pavilions: logins, page loads and the reads and writes of data.js
NextData ==
  \/ \E p \in {"admin", "superadmin"} : PageLoad(p, TRUE, TRUE)
  \/ \E raw \in OwnInputs : LoginSubmit(raw)
  \/ LoginResponse(TRUE)
  \/ Logout
  \/ GetAllPavilions(TRUE, TRUE)
  \/ \E data \in PavilionData, id \in FreshIds, resp \in Responses :
       CreatePavilion(data, id, resp)
  \/ \E id \in PavIds, data \in Patches, getOk \in BOOLEAN, resp \in Responses :
       UpdatePavilion(id, data, getOk, resp)
  \/ \E id \in PavIds, getOk \in BOOLEAN, resp \in {"rows", "error"} :
       DeletePavilion(id, getOk, resp)
  \/ SaLoadAllPavilions(TRUE, TRUE)
  \/ \E id \in PavIds, confirmed \in BOOLEAN, resp \in {"rows", "error"} :
       SaDeletePavilion(id, confirmed, TRUE, resp)
  \/ \E id \in PavIds, resp \in {"rows", "error"} :
       SaTogglePavPremium(id, TRUE, resp)

SpecData == InitData /\ [][NextData]_vars

\* the values data.js caches are answers of the backend: arrays of rows
CacheValues ==
  { <<>>,
    <<[id |-> "p1", tenant_id |-> "t1", is_premium |-> FALSE,
       discounts |-> <<>>]>> }

\* the read cache over time
NextCache ==
  \/ \E key \in CacheKeys : GetCacheData(key)
  \/ \E key \in CacheKeys, value \in CacheValues, quotaOk \in BOOLEAN :
       SetCacheData(key, value, quotaOk)
  \/ \E key \in CacheKeys : ClearCacheData(key)
  \/ \E key \in CacheKeys : Tamper(key)
  \/ \E d \in TickSteps : Tick(d)

SpecCache == InitData /\ [][NextCache]_vars

\* reading the pavilions while the backend changes and time passes
NextRead ==
  \/ \E httpOk \in BOOLEAN, quotaOk \in BOOLEAN : GetAllPavilions(httpOk, quotaOk)
  \/ \E id \in PavIds : BackendChange(id)
  \/ Tamper("pavilions")
  \/ \E d \in TickSteps : Tick(d)

SpecRead == InitData /\ [][NextRead]_vars

\* the caches the origin has when the worker is installed: none, the one of
\* the version before, one of the page
OldCache ==
  [name |-> OldCacheName,
   entries |-> [u \in Urls |-> IF u = IndexHtml THEN Response(200, "old") ELSE NULL]]

OtherCache ==
  [name |-> OtherCacheName,
   entries |-> [u \in Urls |-> IF u = ApiUrl THEN Response(200, "old") ELSE NULL]]

InitialCaches == {<<>>, <<OldCache>>, <<OtherCache>>, <<OldCache, OtherCache>>}

InitSw ==
  /\ InitClient
  /\ floorPlanState = [selectedPavilion |-> NULL, pavilionsList |-> <<>>]
  /\ premium = [t \in Tenants |-> FALSE]
  /\ pavPage = NoPavPage
  /\ \E cs \in InitialCaches :
       sw = [state |-> "installing", caches |-> cs, server |-> "a",
             pending |-> NULL, cleared |-> FALSE]

\* the service worker from its installation on
NextSw ==
  \/ \E outcomes \in Outcomes(STATIC_ASSETS) : SwInstall(outcomes)
  \/ SwActivate
  \/ \E request \in Requests : SwFetch(request)
  \/ \E outcome \in NetworkOutcomes, took \in Tooks, putOk \in BOOLEAN :
       \E timerFirst \in IF took = NETWORK_TIMEOUT THEN BOOLEAN ELSE {FALSE} :
         SwSettle(outcome, took, timerFirst, putOk)
  \/ SwSettle(Hangs, NETWORK_TIMEOUT + 1, FALSE, FALSE)
  \/ \E urls \in Payloads :
       \E outcomes \in Outcomes(urls) : SwMessage("CACHE_URLS", urls, outcomes)
  \/ \E type \in MessageTypes \ {"CACHE_URLS"} :
       SwMessage(type, <<>>, <<>>)
  \/ \E outcomes \in Outcomes(STATIC_ASSETS) : SwSync("update-cache", outcomes)
  \/ SwSync("periodic", <<Failed, Failed>>)
  \/ SwDeploy

SpecSw == InitSw /\ [][NextSw]_vars

\* pavilions as the floor plan gets them: two next to each other, one
\* without coordinates, one whose coordinates have no x
PlanPavilions ==
  { [pavilion_number |-> 1, coordinates |-> [x |-> 10, y |-> 10]],
    [pavilion_number |-> 2, coordinates |-> [x |-> 13, y |-> 12]],
    [pavilion_number |-> 3],
    [pavilion_number |-> 4, coordinates |-> [y |-> 3]] }

MaxList == 3

\* the lists of at most MaxList different pavilions, in every order
PlanLists ==
  {list \in UNION {[1..n -> PlanPavilions] : n \in 0..MaxList} :
     \A i, j \in 1..Len(list) : i # j => list[i] # list[j]}

Points == {0, 4, 5, 8, 10, 12, 15, 18}

\* clicks on the floor plan
NextPlan ==
  \/ \E list \in PlanLists : UpdatePavilionsList(list)
  \/ \E xPercent \in Points, yPercent \in Points : HandleCanvasClick(xPercent, yPercent)

SpecPlan == Init /\ [][NextPlan]_vars

DiscountIds == {"d1", "d2", "d3"}

\* ids of discounts stored for a pavilion, in the backend or in the local copy
UsedDiscountIds(id) ==
  LET local == FindById(DataState.pavilions, id)
  IN  (IF IsRow(pavilions[id])
       THEN {pavilions[id].discounts[i].id : i \in 1..Len(pavilions[id].discounts)}
       ELSE {})
      \cup (IF local # NULL
            THEN {local.discounts[i].id : i \in 1..Len(local.discounts)}
            ELSE {})

\* generateId: the time in ms and nine random characters, an id not in use;
\* the model takes the first unused one
generateId(id) ==
  CHOOSE d \in DiscountIds \ UsedDiscountIds(id) :
    \A e \in DiscountIds \ UsedDiscountIds(id) : \E i \in 1..3 :
      /\ <<"d1", "d2", "d3">>[i] = d
      /\ \A j \in 1..3 : <<"d1", "d2", "d3">>[j] = e => i <= j

\* what a caller passes as a discount
DiscountData == {[title |-> "sale"], [title |-> "sale", id |-> "mine"]}

DiscountPatches == {[title |-> "more"]}

\* the discounts of pavilion p1, which t1 owns and t2 does not: logins, the
\* list read, and the three writes
NextDiscount ==
  \/ \E raw \in OwnInputs : LoginSubmit(raw)
  \/ LoginResponse(TRUE)
  \/ Logout
  \/ GetAllPavilions(TRUE, TRUE)
  \/ \E d \in DiscountData, getOk \in BOOLEAN, resp \in {"rows", "error"} :
       /\ DiscountIds \ UsedDiscountIds("p1") # {}
       /\ AddDiscount("p1", d, generateId("p1"), getOk, resp)
  \/ \E discountId \in {"d1", "d2", "mine"}, resp \in {"rows", "error"} :
       RemoveDiscount("p1", discountId, TRUE, resp)
  \/ \E discountId \in {"d1", "d2"}, d \in DiscountPatches,
        resp \in {"rows", "error"} :
       UpdateDiscount("p1", discountId, d, TRUE, resp)

SpecDiscount == InitData /\ [][NextDiscount]_vars

\* the pavilion page, with the tenants list loaded or not and the premium
\* flags changing
NextPav ==
  \/ \E id \in PavIds, httpOk \in BOOLEAN, sectionsShown \in BOOLEAN :
       PavInit(id, httpOk, sectionsShown)
  \/ ContactOwner
  \/ \E t \in Tenants, value \in BOOLEAN : SetPremium(t, value)
  \/ \E httpOk \in BOOLEAN : GetAllTenants(httpOk, TRUE)
  \/ ClearCacheData("tenants")

SpecPav == InitData /\ [][NextPav]_vars

\* formatPhoneNumber(phone), called on its own
FormatPhone(raw) ==
  /\ last' = Did("formatPhoneNumber", raw, formatPhoneNumber(raw), NoReq, "none")
  /\ UNCHANGED <<tenants, pavilions, page>>
  /\ UNCHANGED <<AuthVars, DataVars, AdminVars, Clock>>
  /\ UNCHANGED Elsewhere

MaxZeros == 10

\* what may be typed: an optional sign or space, a first digit, zeros with or
\* without a separator after them, a last digit, and an optional tail; 10, 11
\* or 12 digits in all
PhoneInputs ==
  { pre \o <<first>> \o Zeros(k) \o sep \o <<final>> \o suf :
      pre \in {<<>>, <<"+">>, <<" ">>}, first \in {"7", "8", "9"},
      k \in (MaxZeros - 2)..MaxZeros, sep \in {<<>>, <<"-">>}, final \in {"1", "2"},
      suf \in {<<>>, <<" ">>} }

\* the phone field: formatting alone, and the login form that formats the
\* number and hands it to checkPhone
NextPhone ==
  \/ \E raw \in PhoneInputs : FormatPhone(raw)
  \/ \E raw \in PhoneInputs : LoginSubmit(raw)
  \/ \E httpOk \in BOOLEAN : LoginResponse(httpOk)

SpecPhone == Init /\ [][NextPhone]_vars

----------------------------------------------------------------------------
(* Properties *)

SessionMs == SESSION_TIMEOUT * HourMs

\* the tenants row with this phone exists and is approved
ApprovedRecord(phone) == \E t \in Tenants : PhoneOf(t) = phone /\ tenants[t].approved

C2_CheckPhoneAndLogin ==
  [][ /\ last'.op = "loginResponse" =>
           LET phone == last'.arg.phone
               answered == last'.arg.httpOk
           IN  /\ validatePhoneNumber(phone)
               /\ (last'.result = "session") = (answered /\ ApprovedRecord(phone))
               /\ (last'.result = "refused") = (answered /\ ~ApprovedRecord(phone))
               /\ (last'.result = "error") = ~answered
               /\ last'.result = "session" =>
                    /\ currentTenant' = session'
                    /\ session'.phone = phone
                    /\ PhoneOf(session'.id) = phone
               /\ last'.result # "session" => UNCHANGED <<currentTenant, session>>
      /\ last'.op = "loginSubmit" => UNCHANGED <<currentTenant, session>> ]_vars

\* a login with the phone of a row that is not approved was refused
C2_Witness ==
  /\ last.op = "loginResponse"
  /\ last.result = "refused"
  /\ \E t \in Tenants : PhoneOf(t) = last.arg.phone /\ ~tenants[t].approved

\* C3: where the code decides whether the tenant is authenticated (requireAuth,
\* initAuth on a page load), a session older than SESSION_TIMEOUT hours, by its
\* loginTime and by the last activity, no longer counts.
C3_SessionExpires ==
  /\ (last.op = "requireAuth" /\ last.result = TRUE) =>
        \/ now - currentTenant.loginTime <= SessionMs
        \/ lastActivity # NULL /\ now - lastActivity.some <= SessionMs
  /\ (last.op = "load" /\ isAuthenticated) =>
        now - currentTenant.loginTime <= SessionMs

\* C4: logout leaves no current tenant and no stored session; from then on a
\* page load restores nothing, requireAuth answers false and redirects, and
\* only a login that succeeds makes a tenant authenticated again.
C4_Logout ==
  [][ /\ last'.op = "logout" =>
           /\ currentTenant' = NULL
           /\ ~isAuthenticated'
           /\ session' = NULL
      /\ (session = NULL /\ last'.op = "load") => ~isAuthenticated'
      /\ (session = NULL /\ ~isAuthenticated /\ (session' # NULL \/ isAuthenticated')) =>
           (last'.op = "loginResponse" /\ last'.result = "session")
      /\ (last'.op = "requireAuth" /\ session = NULL) =>
           (last'.result = FALSE /\ last'.nav = "index.html") ]_vars

\* requireAuth refused after a logout (only logout clears lastActivity)
C4_Witness ==
  /\ last.op = "requireAuth"
  /\ last.result = FALSE
  /\ last.nav = "index.html"
  /\ lastActivity = NULL
  /\ session = NULL

\* the authenticated tenant's row in the tenants table has is_owner = true
OwnerSession == isAuthenticated /\ tenants[currentTenant.id].is_owner

\* C5: on the superadmin page access is granted exactly to an authenticated
\* tenant whose row has is_owner = true: for it the console is shown, for
\* anybody else the access-denied block and nothing is loaded.
C5_OwnerAccess ==
  (last.op = "load" /\ last.arg = "superadmin") =>
    /\ last.result = OwnerSession
    /\ shown.adminContent = OwnerSession
    /\ shown.accessDenied = ~OwnerSession
    /\ ~OwnerSession => (state.allPavilions = <<>> /\ state.allTenants = <<>>)

\* the pavilion is the current tenant's, going by what getPavilionById found
Allowed(found) ==
  /\ currentTenant # NULL
  /\ found # NULL
  /\ found.tenant_id = currentTenant.id

\* C6: updatePavilion and deletePavilion send their PATCH or DELETE exactly
\* when a tenant is authenticated and the pavilion's tenant_id is that
\* tenant's id; otherwise they throw, send nothing, and leave the backend,
\* DataState.pavilions and the 'pavilions' cache entry as they were.
C6_OwnerOnly ==
  [][ last'.op \in {"updatePavilion", "deletePavilion"} =>
        LET id == last'.arg.id
            found == last'.arg.found
        IN  /\ (found # NULL /\ IsRow(pavilions[id])) =>
                  found.tenant_id = pavilions[id].tenant_id
            /\ (last'.req # NoReq) = Allowed(found)
            /\ last'.req # NoReq =>
                  /\ last'.req.id = id
                  /\ last'.req.method =
                       IF last'.op = "updatePavilion" THEN "PATCH" ELSE "DELETE"
            /\ ~Allowed(found) =>
                  /\ last'.result = "threw"
                  /\ pavilions' = pavilions
                  /\ DataState'.pavilions = DataState.pavilions
                  /\ cache'["pavilions"] = cache["pavilions"] ]_vars

\* an update of somebody else's pavilion was turned down with the pavilions
\* loaded and cached
C6_Witness ==
  /\ last.op = "updatePavilion"
  /\ last.result = "threw"
  /\ last.req = NoReq
  /\ isAuthenticated
  /\ last.arg.found # NULL
  /\ last.arg.found.tenant_id # currentTenant.id
  /\ Len(DataState.pavilions) > 0
  /\ cache["pavilions"] # NULL

\* C7: createPavilion without a current tenant throws and sends nothing; with
\* one, the record it posts carries the current tenant's id as tenant_id
\* whatever the caller passed, and on success the pavilion returned is
\* appended to DataState.pavilions.
C7_Create ==
  [][ last'.op = "createPavilion" =>
        /\ currentTenant = NULL => (last'.result = "threw" /\ last'.req = NoReq)
        /\ currentTenant # NULL =>
              /\ last'.req.method = "POST"
              /\ last'.req.body.tenant_id = currentTenant.id
        /\ last'.result = "ok" =>
              /\ last'.arg.ret.tenant_id = currentTenant.id
              /\ pavilions'[last'.arg.ret.id] = last'.arg.ret
              /\ DataState'.pavilions = Append(DataState.pavilions, last'.arg.ret) ]_vars

\* a pavilion was created by a caller that passed another tenant's id
C7_Witness ==
  /\ last.op = "createPavilion"
  /\ last.result = "ok"
  /\ last.arg.data.tenant_id # currentTenant.id
  /\ last.arg.ret.tenant_id = currentTenant.id
  /\ Len(DataState.pavilions) > 1

\* C8: for the session of an owner, a confirmed SuperAdmin.deletePavilion of
\* a pavilion listed in state.allPavilions removes it from the backend and
\* from the list, whoever it belongs to, and SuperAdmin.togglePavPremium of a
\* listed pavilion flips is_premium in the backend and in the list (leaving
\* aside a backend that answers with an error or without the row).
C8_ManagesAllPavilions ==
  /\ ( /\ last.op = "SuperAdmin.deletePavilion"
       /\ last.arg.confirmed
       /\ last.arg.listed
       /\ last.arg.answer # "error"
       /\ OwnerSession ) =>
        /\ last.result = "success"
        /\ ~IsRow(pavilions[last.arg.id])
        /\ FindById(state.allPavilions, last.arg.id) = NULL
  /\ ( /\ last.op = "SuperAdmin.togglePavPremium"
       /\ last.arg.listed
       /\ last.arg.answer = "rows"
       /\ IsRow(pavilions[last.arg.id])
       /\ OwnerSession ) =>
        /\ last.result = "success"
        /\ FindById(state.allPavilions, last.arg.id).is_premium =
             pavilions[last.arg.id].is_premium

\* C9: after approveTenant has shown its success message the row in the
\* tenants table has approved = true, and after rejectTenant approved = false.
C9_ApprovalReachesBackend ==
  /\ (last.op = "approveTenant" /\ last.result = "success") =>
        tenants[last.arg].approved
  /\ (last.op = "rejectTenant" /\ last.result = "success") =>
        ~tenants[last.arg].approved

\* C10: getCacheData returns what setCacheData stored under the key as long
\* as at most CACHE_TIMEOUT ms have passed since; an older entry is removed
\* and null returned; a missing or unparsable entry gives null.
C10_CacheTtl ==
  /\ (last.op = "setCacheData" /\ last.result = TRUE) =>
        cache[last.arg.key] = [value |-> last.arg.value, timestamp |-> now]
  /\ last.op = "getCacheData" =>
        LET key == last.arg.key
            entry == last.arg.entry
        IN  IF entry = NULL \/ entry = Unparsable
            THEN last.result = NULL /\ cache[key] = entry
            ELSE IF now - entry.timestamp <= CACHE_TIMEOUT
            THEN last.result = Some(entry.value) /\ cache[key] = entry
            ELSE last.result = NULL /\ cache[key] = NULL

\* an entry exactly CACHE_TIMEOUT ms old was still returned
C10_Witness ==
  /\ last.op = "getCacheData"
  /\ last.arg.entry # NULL
  /\ last.arg.entry # Unparsable
  /\ now - last.arg.entry.timestamp = CACHE_TIMEOUT
  /\ last.result = Some(last.arg.entry.value)

\* the entry is one getCacheData still returns at this time
Fresh(entry) ==
  /\ entry # NULL
  /\ entry # Unparsable
  /\ now - entry.timestamp <= CACHE_TIMEOUT

\* the 'pavilions' entry once getCacheData has looked at it
Looked(entry) ==
  IF entry = NULL \/ entry = Unparsable \/ Fresh(entry) THEN entry ELSE NULL

\* getAllPavilions with a fresh entry, and with a request that fails
C11_HitAndFailure ==
  last'.op = "getAllPavilions" =>
    LET entry == cache["pavilions"]
    IN  /\ Fresh(entry) =>
              /\ last'.result = entry.value
              /\ last'.req = NoReq
              /\ cache' = cache
        /\ ~Fresh(entry) => last'.req = [method |-> "GET"]
        /\ (~Fresh(entry) /\ last'.arg.httpOk) =>
              /\ last'.result = AllPavilionRows
              /\ DataState'.pavilions = AllPavilionRows
        /\ (~Fresh(entry) /\ ~last'.arg.httpOk) =>
              /\ last'.result = DataState.pavilions
              /\ DataState' = DataState
              /\ cache'["pavilions"] = Looked(entry)

\* C11 as stated: whenever the request succeeds the response is in the cache
\* afterwards, with the current timestamp.
C11_AlwaysCached ==
  [][ /\ C11_HitAndFailure
      /\ (last'.op = "getAllPavilions" /\ ~Fresh(cache["pavilions"]) /\ last'.arg.httpOk) =>
            cache'["pavilions"] = [value |-> AllPavilionRows, timestamp |-> now] ]_vars

\* C11, amended: a fresh 'pavilions' entry is returned without a request;
\* otherwise all pavilions are requested, the response goes to
\* DataState.pavilions and is returned, and it goes to the cache with the
\* current timestamp unless localStorage refuses the write, which leaves the
\* entry as getCacheData left it; a failed request throws nothing, returns
\* the last DataState.pavilions and writes nothing to the cache.
C11_CacheThenBackend ==
  [][ /\ C11_HitAndFailure
      /\ (last'.op = "getAllPavilions" /\ ~Fresh(cache["pavilions"]) /\ last'.arg.httpOk) =>
            cache'["pavilions"] =
              IF last'.arg.quotaOk
              THEN [value |-> AllPavilionRows, timestamp |-> now]
              ELSE Looked(cache["pavilions"]) ]_vars

\* the response was returned and kept in DataState.pavilions although
\* localStorage refused it, and no entry is in the cache
C11_Witness ==
  /\ last.op = "getAllPavilions"
  /\ last.arg.httpOk
  /\ ~last.arg.quotaOk
  /\ last.result = AllPavilionRows
  /\ DataState.pavilions = AllPavilionRows
  /\ cache["pavilions"] = NULL
  /\ ticks > 0

\* the path ends with one of the extensions
PathHasExtension(url) ==
  \E n \in 1..Len(url.pathname) :
    SubSeq(url.pathname, n, Len(url.pathname)) \in CACHEABLE_EXTENSIONS

\* C12: the fetch listener does not answer a request that is not a GET; a
\* GET whose URL path ends with one of CACHEABLE_EXTENSIONS goes to
\* cacheFirstStrategy and every other GET to networkFirstStrategy.
C12_StrategyByRequest ==
  [][ last'.op = "fetch" =>
        LET request == last'.arg.request
        IN  /\ request.method # "GET" =>
                  /\ last'.arg.strategy = "none"
                  /\ last'.result.how = "notAnswered"
                  /\ sw' = sw
            /\ (request.method = "GET" /\ PathHasExtension(request.url)) =>
                  /\ last'.arg.strategy = "cacheFirst"
                  /\ last'.result.how # "notAnswered"
            /\ (request.method = "GET" /\ ~PathHasExtension(request.url)) =>
                  /\ last'.arg.strategy = "networkFirst"
                  /\ last'.result.how = "pending"
                  /\ sw'.pending.strategy = "networkFirst" ]_vars

\* a GET with the extension in the query only went to networkFirstStrategy
C12_Witness ==
  /\ last.op = "fetch"
  /\ last.arg.request = [method |-> "GET", url |-> QueryUrl]
  /\ last.arg.strategy = "networkFirst"
  /\ sw.pending # NULL

\* what the current cache holds for the URL, NULL without cache or entry
Held(cs, url) ==
  IF EntriesOf(cs, CACHE_NAME) = NULL THEN NULL ELSE EntriesOf(cs, CACHE_NAME)[url]

IsResponse(r) == "status" \in DOMAIN r

\* C13: cacheFirstStrategy returns the cached response without contacting
\* the network when there is one; otherwise it returns the response of the
\* network, which goes to the current cache only when its status is 200;
\* when the network fails and nothing is cached it returns the 503
\* response; it always returns a response.
C13_CacheFirst ==
  [][ /\ (last'.op = "fetch" /\ last'.arg.strategy = "cacheFirst") =>
           LET url == last'.arg.request.url
           IN  IF MatchAll(sw.caches, url) # NULL
               THEN /\ last'.result.response = MatchAll(sw.caches, url)
                    /\ last'.req = NoReq
                    /\ sw' = sw
               ELSE /\ last'.result.how = "pending"
                    /\ last'.req # NoReq
      /\ (last'.op = "settle" /\ last'.arg.strategy = "cacheFirst") =>
           LET url == last'.arg.request.url
               outcome == last'.arg.outcome
           IN  /\ IsResponse(last'.result.response)
               /\ IsResponse(outcome) => last'.result.response = outcome
               /\ Held(sw'.caches, url) # Held(sw.caches, url) =>
                     /\ IsResponse(outcome)
                     /\ outcome.status = 200
                     /\ Held(sw'.caches, url) = outcome
               /\ \A u \in Urls \ {url} : Held(sw'.caches, u) = Held(sw.caches, u)
               /\ (outcome = Failed /\ MatchAll(sw.caches, url) = NULL) =>
                     last'.result.response = Offline
               /\ (outcome = Failed /\ MatchAll(sw.caches, url) # NULL) =>
                     last'.result.response = MatchAll(sw.caches, url) ]_vars

\* the network failed with nothing cached and the 503 response was returned
C13_Witness ==
  /\ last.op = "settle"
  /\ last.arg.strategy = "cacheFirst"
  /\ last.arg.outcome = Failed
  /\ last.result.response = Offline
  /\ last.result.response.status = 503

\* C14: networkFirstStrategy returns the response of the network when it
\* comes within NETWORK_TIMEOUT ms (caching it only when its status is 200);
\* when the network fails or takes longer it returns the cached response if
\* there is one and the 503 response otherwise; it always returns a
\* response, NETWORK_TIMEOUT ms after the request at the latest.
C14_NetworkFirst ==
  [][ (last'.op = "settle" /\ last'.arg.strategy = "networkFirst") =>
        LET url == last'.arg.request.url
            outcome == last'.arg.outcome
            took == last'.arg.took
            fallback == IF MatchAll(sw.caches, url) # NULL
                        THEN MatchAll(sw.caches, url) ELSE Offline
        IN  /\ IsResponse(last'.result.response)
            /\ last'.result.elapsed <= NETWORK_TIMEOUT
            /\ (IsResponse(outcome) /\ took < NETWORK_TIMEOUT) =>
                  last'.result.response = outcome
            /\ (~IsResponse(outcome) \/ took > NETWORK_TIMEOUT) =>
                  /\ last'.result.response = fallback
                  /\ sw'.caches = sw.caches
            /\ took = NETWORK_TIMEOUT =>
                  last'.result.response \in {outcome, fallback}
            /\ Held(sw'.caches, url) # Held(sw.caches, url) =>
                  /\ IsResponse(outcome)
                  /\ outcome.status = 200
                  /\ last'.result.response = outcome
                  /\ Held(sw'.caches, url) = outcome ]_vars

\* the network answered too late and the cached response was returned when
\* the timer ran out
C14_Witness ==
  /\ last.op = "settle"
  /\ last.arg.strategy = "networkFirst"
  /\ IsResponse(last.arg.outcome)
  /\ last.arg.took > NETWORK_TIMEOUT
  /\ last.result.elapsed = NETWORK_TIMEOUT
  /\ last.result.response.status = 200
  /\ last.result.response # last.arg.outcome

\* the names of the caches that start with 'apra-shka-'
VersionedCaches(cs) ==
  {cs[i].name : i \in {j \in 1..Len(cs) : StartsWith(cs[j].name, CachePrefix)}}

\* C15: activation deletes every cache whose name starts with 'apra-shka-'
\* and is not CACHE_NAME and leaves the other caches as they are; from then
\* on, through fetch, CACHE_URLS and sync events, the cache named CACHE_NAME
\* is the only 'apra-shka-' cache there is.
C15_CacheBusting ==
  [][ /\ last'.op = "activate" =>
           sw'.caches = SelectSeq(sw.caches,
                          LAMBDA c : ~StartsWith(c.name, CachePrefix) \/ c.name = CACHE_NAME)
      /\ sw'.state = "activated" =>
           /\ VersionedCaches(sw'.caches) \subseteq {CACHE_NAME}
           /\ ~sw'.cleared => VersionedCaches(sw'.caches) = {CACHE_NAME} ]_vars

\* activation found the cache of the version before and a cache of the page,
\* deleted the first and kept the second
C15_Witness ==
  /\ last.op = "activate"
  /\ \E i \in 1..Len(last.arg) : last.arg[i] = OldCacheName
  /\ HasCache(sw.caches, OtherCacheName)
  /\ EntriesOf(sw.caches, OtherCacheName) = OtherCache.entries
  /\ ~HasCache(sw.caches, OldCacheName)
  /\ HasCache(sw.caches, CACHE_NAME)

\* C16: once the worker is active, every URL of STATIC_ASSETS is in the
\* CACHE_NAME cache (as long as no CLEAR_CACHE message emptied it), and a GET
\* for one of them that the network fails is not answered with the 503
\* response.
C16_OfflineAssets ==
  /\ (sw # NULL /\ sw.state = "activated" /\ ~sw.cleared) =>
        \A i \in 1..Len(STATIC_ASSETS) : Held(sw.caches, STATIC_ASSETS[i]) # NULL
  /\ ( /\ last.op = "settle"
       /\ ~sw.cleared
       /\ last.arg.outcome = Failed
       /\ \E i \in 1..Len(STATIC_ASSETS) : STATIC_ASSETS[i] = last.arg.request.url ) =>
        last.result.response # Offline

\* the pavilion has coordinates less than 5 away from the point on both axes
Near(pavilion, x, y) ==
  /\ "coordinates" \in DOMAIN pavilion
  /\ LET px == IF "x" \in DOMAIN pavilion.coordinates THEN pavilion.coordinates.x ELSE 0
         py == IF "y" \in DOMAIN pavilion.coordinates THEN pavilion.coordinates.y ELSE 0
     IN  /\ px - x < 5 /\ x - px < 5
         /\ py - y < 5 /\ y - py < 5

\* C17: findPavilionAtPoint returns a pavilion of pavilionsList that has
\* coordinates less than 5 percent from the point on both axes (a missing x
\* or y counting as 0), and null exactly when the list is empty or has no
\* such pavilion; a pavilion without coordinates is never returned.
C17_HitTest ==
  last.op = "canvasClick" =>
    LET list == floorPlanState.pavilionsList
        x == last.arg.x
        y == last.arg.y
        near == {i \in 1..Len(list) : Near(list[i], x, y)}
    IN  /\ (last.result = NULL) = (near = {})
        /\ last.result # NULL =>
              /\ \E i \in near : list[i] = last.result
              /\ "coordinates" \in DOMAIN last.result
              /\ floorPlanState.selectedPavilion = Some(last.result.pavilion_number)

\* a click 5 percent off a pavilion, with a pavilion without coordinates in
\* the list, found nothing
C17_Witness ==
  /\ last.op = "canvasClick"
  /\ last.result = NULL
  /\ \E i \in 1..Len(floorPlanState.pavilionsList) :
       LET p == floorPlanState.pavilionsList[i]
       IN  /\ "coordinates" \in DOMAIN p
           /\ "x" \in DOMAIN p.coordinates
           /\ p.coordinates.x - last.arg.x = 5
           /\ p.coordinates.y = last.arg.y
  /\ \E i \in 1..Len(floorPlanState.pavilionsList) :
       "coordinates" \notin DOMAIN floorPlanState.pavilionsList[i]

\* the square of the distance between the pavilion and the point
Dist2(pavilion, x, y) ==
  LET px == IF "x" \in DOMAIN pavilion.coordinates THEN pavilion.coordinates.x ELSE 0
      py == IF "y" \in DOMAIN pavilion.coordinates THEN pavilion.coordinates.y ELSE 0
  IN  (px - x) * (px - x) + (py - y) * (py - y)

\* C18 as stated: of the pavilions within the tolerance the nearest one is
\* returned and selected.
C18_Nearest ==
  (last.op = "canvasClick" /\ last.result # NULL) =>
    LET list == floorPlanState.pavilionsList
    IN  \A i \in 1..Len(list) :
          Near(list[i], last.arg.x, last.arg.y) =>
            Dist2(last.result, last.arg.x, last.arg.y)
              <= Dist2(list[i], last.arg.x, last.arg.y)

\* C18, amended: of the pavilions within the tolerance the one that comes
\* first in pavilionsList is returned and selected, whether or not another
\* one is nearer to the point.
C18_FirstInList ==
  (last.op = "canvasClick" /\ last.result # NULL) =>
    LET list == floorPlanState.pavilionsList
    IN  /\ \E i \in 1..Len(list) :
             /\ list[i] = last.result
             /\ Near(list[i], last.arg.x, last.arg.y)
             /\ \A j \in 1..(i - 1) : ~Near(list[j], last.arg.x, last.arg.y)
        /\ floorPlanState.selectedPavilion = Some(last.result.pavilion_number)

\* two pavilions were within the tolerance and the one returned is farther
\* from the point than the other
C18_Witness ==
  /\ last.op = "canvasClick"
  /\ last.result # NULL
  /\ \E i \in 1..Len(floorPlanState.pavilionsList) :
       /\ Near(floorPlanState.pavilionsList[i], last.arg.x, last.arg.y)
       /\ Dist2(floorPlanState.pavilionsList[i], last.arg.x, last.arg.y)
            < Dist2(last.result, last.arg.x, last.arg.y)

\* one of the premium features of the page is on
FeatureOn(pg) == pg.slugUrl \/ \E e \in Sections : pg.display[e]

\* C19: when init has run for a pavilion whose tenant is not premium the URL
\* is not rewritten to /pavilion/<slug> and the contacts, discounts,
\* additional-categories and stats sections are hidden, and contactOwner
\* opens no link for such a page; a feature is on, or a contact link opened,
\* only if the tenant's is_premium flag was true when init read it.
C19_PremiumGate ==
  [][ /\ (last'.op = "pavInit" /\ last'.result = "done") =>
           LET owner == pavPage'.currentPavilion.tenant_id
           IN  /\ ~premium[owner] =>
                     /\ ~pavPage'.slugUrl
                     /\ \A e \in Sections : ~pavPage'.display[e]
                     /\ ~pavPage'.isPremium
               /\ FeatureOn(pavPage') => (premium[owner] /\ pavPage'.isPremium)
      /\ last'.op # "pavInit" => pavPage' = pavPage
      /\ last'.op = "contactOwner" =>
           /\ ~pavPage.isPremium => last'.result # "opened"
           /\ last'.result = "opened" => FeatureOn(pavPage) ]_vars

\* the page of a pavilion whose tenant is not premium, loaded with its
\* sections visible, has them hidden, and contactOwner opened nothing
C19_Witness ==
  /\ last.op = "contactOwner"
  /\ last.result = "premiumOnly"
  /\ pavPage.currentPavilion # NULL
  /\ pavPage.currentTenant # NULL
  /\ ~premium[pavPage.currentPavilion.tenant_id]
  /\ ~FeatureOn(pavPage)

\* the caller of a data.js write is logged in and owns the pavilion
CallerOwns(id) ==
  /\ currentTenant # NULL
  /\ IsRow(pavilions[id])
  /\ pavilions[id].tenant_id = currentTenant.id

IsDiscountOp(op) == op \in {"addDiscount", "removeDiscount", "updateDiscount"}

\* C20: a successful addDiscount(pavilionId, d) by the owner leaves the
\* pavilion with its previous discounts, in order and unchanged, followed by
\* one new entry carrying d and the generated id; a successful removeDiscount
\* removes exactly the entries with the id; a successful updateDiscount
\* leaves every entry with another id as it was; for a caller who is not
\* logged in or does not own the pavilion all three throw and send no request.
C20_Discounts ==
  [][ IsDiscountOp(last'.op) =>
        LET id == last'.arg.id
            before == pavilions[id].discounts
            after == pavilions'[id].discounts
        IN  /\ ~CallerOwns(id) =>
                  /\ last'.result = "threw"
                  /\ last'.req = NoReq
                  /\ pavilions' = pavilions
            /\ (last'.op = "addDiscount" /\ last'.result = "ok") =>
                  /\ Len(after) = Len(before) + 1
                  /\ SubSeq(after, 1, Len(before)) = before
                  /\ after[Len(after)].id = last'.arg.generated
                  /\ \A f \in DOMAIN last'.arg.data \ {"id"} :
                        after[Len(after)][f] = last'.arg.data[f]
            /\ (last'.op = "removeDiscount" /\ last'.result = "ok") =>
                  after = SelectSeq(before,
                            LAMBDA d : d.id # last'.arg.discountId)
            /\ (last'.op = "updateDiscount" /\ last'.result = "ok") =>
                  /\ Len(after) = Len(before)
                  /\ \A i \in 1..Len(before) :
                        before[i].id # last'.arg.discountId => after[i] = before[i]
    ]_vars

\* the number of digits a text contains
DigitCount(text) ==
  Cardinality({i \in 1..Len(text) :
                 text[i] \in {"0", "1", "2", "3", "4", "5", "6", "7", "8", "9"}})

\* '+7' followed by exactly ten digits
StandardForm(phone) ==
  /\ Len(phone) = 12
  /\ phone[1] = "+"
  /\ phone[2] = "7"
  /\ \A i \in 3..12 :
       phone[i] \in {"0", "1", "2", "3", "4", "5", "6", "7", "8", "9"}

\* C21: formatPhoneNumber throws exactly when its input does not contain 11
\* digits; whenever it does not throw, its result is '+7' followed by exactly
\* 10 digits and validatePhoneNumber accepts it, so the login form, which
\* passes the result to checkPhone, sends the request for every input with
\* 11 digits.
C21_StandardForm ==
  /\ last.op = "formatPhoneNumber" =>
       /\ (last.result = Threw) <=> (DigitCount(last.arg) # 11)
       /\ last.result # Threw =>
            /\ StandardForm(last.result.some)
            /\ validatePhoneNumber(last.result.some)
  /\ (last.op = "loginSubmit" /\ DigitCount(last.arg) = 11) =>
       last.result = "sent"

====
